---- MODULE Spec2Model ----
(***************************************************************************)
(* Facility booking system: users, facilities and bookings tables, the     *)
(* request handlers of app.py, the entity layer of models.py and the       *)
(* booking form validators of forms.py.                                    *)
(*                                                                         *)
(* Times of day are minutes since midnight (the form parses %H:%M), dates  *)
(* are day numbers, text fields are strings whose length TextLen gives.    *)
(***************************************************************************)
EXTENDS Integers, Sequences, FiniteSets, TLC

VARIABLES users, facilities, nextFacilityId, bookings, nextBookingId,
          today, inflight, last,
          deleting, dashboard, held, queries, updating, racing

\* The requests that are served statement by statement, with other requests
\* in between: the delete-facility requests that passed their checks, the
\* admin dashboard request with the counts it has read so far, the number of
\* connections taken from the pool and not given back, the execute_query
\* calls that hold a connection and have not run their statement yet, the
\* update-facility requests that have read the facility and not written it,
\* and the pairs of an admin's decision and the owner's cancel that are issued
\* for one booking at the same time, with the requests of the pair served so
\* far.
stepwise == <<deleting, dashboard, held, queries, updating, racing>>

vars == <<users, facilities, nextFacilityId, bookings, nextBookingId,
          today, inflight, last, stepwise>>

----------------------------------------------------------------------------
(* Bounds of the model *)

MaxBookings == 2
MaxFacilities == 1
MaxDay == 1
MaxInflight == 2
MaxLimit == 2

(* config.py: the booking duration bounds, in minutes *)

MIN_BOOKING_DURATION == 30
MAX_BOOKING_DURATION == 480

(* database.py: the size of the connection pool *)

pool_size == 5

(* app.py: the number of upcoming bookings the staff dashboard asks for *)

DashboardLimit == 5

(* Input universes *)

NULL == "NULL"
NoTime == 0 - 1
NoId == 0
TOO_LONG == "TOO_LONG"

Emails == {"a@x.org", "b@x.org", "c@x.org"}
Roles == {"admin", "staff"}
Dates == (0 - 1) .. MaxDay
\* <<start, end>>: 30 minutes and 8 hours, then one minute less and more,
\* an empty interval, 14:00 to 13:00, and a start time that did not parse.
ValidPairs == { <<540, 570>>, <<540, 1020>> }
BadPairs == { <<540, 569>>, <<540, 1021>>, <<540, 540>>, <<840, 780>>, <<NoTime, 570>> }
FacilityIds == 1 .. (MaxFacilities + 1)
BookingIds == 1 .. (MaxBookings + 1)
FacilityStatuses == {"active", "inactive"}
Uploads == {"", "a.png"}

\* Length of a text input; TOO_LONG stands for a text of 501 characters.
TextLen(s) == IF s = TOO_LONG THEN 501 ELSE Len(s)

BForm(f, d, tp, p) ==
    [facility_id |-> f, booking_date |-> d, start_time |-> tp[1],
     end_time |-> tp[2], purpose |-> p]

\* Every facility, date and accepted interval; then one field wrong at a time.
BookingForms ==
    { BForm(f, d, tp, "team meeting") :
        f \in {1, MaxFacilities + 1}, d \in Dates, tp \in ValidPairs }
    \cup { BForm(1, MaxDay, tp, "team meeting") : tp \in BadPairs }
    \cup { BForm(1, MaxDay, <<540, 570>>, TOO_LONG), BForm(NoId, MaxDay, <<540, 570>>, "team meeting") }

FForm(f, n, c, s, up) ==
    [facility_id |-> f, name |-> n, capacity |-> c, status |-> s, upload |-> up]

FacilityForms ==
    { FForm(f, "Hall", 1, s, up) :
        f \in {NoId} \cup FacilityIds, s \in FacilityStatuses, up \in Uploads }
    \cup { FForm(1, "AB", 1, "active", ""), FForm(1, "Hall", 0, "active", ""),
           FForm(1, "Hall", 1001, "active", "") }

NoBookingForm == [facility_id |-> NoId, booking_date |-> 0, start_time |-> NoTime,
                  end_time |-> NoTime, purpose |-> ""]
NoStats == [total |-> 0 - 1, pending |-> 0 - 1, approved |-> 0 - 1]

\* No admin dashboard request is being served.
NoDashboard == [actor |-> 0, read |-> << >>]

\* The last request and its outcome, as the caller sees it; "was" is the status
\* the targeted booking had when the request arrived ("" without such a row),
\* "returned" the value the entity-layer call gave back to the handler (-1 when
\* the handler made no such call), "upcoming" the booking ids listed on the
\* staff dashboard, "message" the text flashed for a form that did not
\* validate, "upload" the name of the image file sent with a facility form.
Response(op, actor, target, outcome) ==
    [op |-> op, actor |-> actor, target |-> target, outcome |-> outcome,
     form |-> NoBookingForm, stats |-> NoStats, was |-> "", returned |-> 0 - 1,
     upcoming |-> << >>, message |-> "", upload |-> ""]

----------------------------------------------------------------------------
(* models.py: User *)

is_admin(u) == users[u].role = "admin"
\* is_staff that lets administrators through as well.
is_staff_OrAdmin(u) == users[u].role \in {"staff", "admin"}

is_staff(u) == users[u].role = "staff"

User_get_by_email(email) == { u \in 1 .. Len(users) : users[u].email = email }

User_create(email, role) == Append(users, [email |-> email, role |-> role])

----------------------------------------------------------------------------
(* forms.py: BookingForm *)

DataRequired(t) == t # NoTime

\* validate_booking_date with "<=" for "<".
validate_booking_date_NotToday(d, now) ==
    IF d <= now THEN "past_date" ELSE ""

\* "" when the date passes, otherwise the error raised.
validate_booking_date(d, now) ==
    IF d < now THEN "past_date" ELSE ""

\* validate_end_time without the minimum-duration check.
validate_end_time_NoMinimum(start, end) ==
    IF start # NoTime /\ end # NoTime
    THEN IF end <= start THEN "end_not_after_start"
         ELSE IF (end - start) * 60 > 8 * 3600 THEN "max_duration"
         ELSE ""
    ELSE ""

\* "" when the end time passes, otherwise the error raised.
validate_end_time(start, end) ==
    IF start # NoTime /\ end # NoTime
    THEN IF end <= start THEN "end_not_after_start"
         ELSE LET seconds == (end - start) * 60
              IN  IF seconds > 8 * 3600 THEN "max_duration"
                  ELSE IF 2 * seconds < 3600 THEN "min_duration"
                  ELSE ""
    ELSE ""

\* form.end_time.errors: DataRequired stops the chain, then validate_end_time.
end_time_errors(form) ==
    IF ~DataRequired(form.end_time) THEN "required"
    ELSE validate_end_time(form.start_time, form.end_time)

BookingForm_validate(form, now) ==
    /\ form.facility_id # NoId
    /\ validate_booking_date(form.booking_date, now) = ""
    /\ DataRequired(form.start_time)
    /\ DataRequired(form.end_time)
    /\ validate_end_time(form.start_time, form.end_time) = ""
    /\ TextLen(form.purpose) <= 500

(* forms.py: FacilityForm *)

FacilityForm_validate(form) ==
    /\ TextLen(form.name) >= 3 /\ TextLen(form.name) <= 100
    /\ form.capacity # 0
    /\ form.capacity >= 1 /\ form.capacity <= 1000
    /\ form.status \in FacilityStatuses

----------------------------------------------------------------------------
(* models.py: Facility *)

ImageName(filename) == "ts_" \o filename

Facility_get_by_id(fid) == fid \in DOMAIN facilities

Facility_create(name, capacity, description, status, image) ==
    facilities @@ (nextFacilityId :>
        [name |-> name, capacity |-> capacity, description |-> description,
         status |-> status, image |-> image])

Facility_update(fid, name, capacity, description, status, image) ==
    [f \in DOMAIN facilities |->
        IF f = fid
        THEN [name |-> name, capacity |-> capacity, description |-> description,
              status |-> status, image |-> image]
        ELSE facilities[f]]

\* has_active_bookings counting the approved bookings only.
Facility_has_active_bookings_ApprovedOnly(fid) ==
    Cardinality({ b \in DOMAIN bookings :
                    /\ bookings[b].facility_id = fid
                    /\ bookings[b].status = "approved" }) > 0

Facility_has_active_bookings(fid) ==
    Cardinality({ b \in DOMAIN bookings :
                    /\ bookings[b].facility_id = fid
                    /\ bookings[b].status \in {"pending", "approved"} }) > 0

Facility_delete(fid) ==
    [f \in DOMAIN facilities \ {fid} |-> facilities[f]]

\* bookings.facility_id REFERENCES facilities ON DELETE CASCADE
CascadeDelete(fid) ==
    [b \in { x \in DOMAIN bookings : bookings[x].facility_id # fid } |-> bookings[b]]

----------------------------------------------------------------------------
(* models.py: Booking *)

\* The bookings table with a unique index on (booking_date, facility_id).
InsertAllowed_UniqueSlot(user_id, facility_id, booking_date) ==
    /\ user_id \in 1 .. Len(users)
    /\ facility_id \in DOMAIN facilities
    /\ \A b \in DOMAIN bookings :
          ~(bookings[b].facility_id = facility_id /\ bookings[b].booking_date = booking_date)

\* The constraints of the bookings table: both foreign keys need their parent
\* row; the index on (booking_date, facility_id) is not a unique one.
InsertAllowed(user_id, facility_id, booking_date) ==
    /\ user_id \in 1 .. Len(users)
    /\ facility_id \in DOMAIN facilities

\* Booking.create with start_time and end_time swapped in the parameter tuple.
Booking_create_TimesSwapped(user_id, facility_id, booking_date, start_time, end_time, purpose) ==
    bookings @@ (nextBookingId :>
        [user_id |-> user_id, facility_id |-> facility_id,
         booking_date |-> booking_date, start_time |-> end_time,
         end_time |-> start_time, purpose |-> purpose, status |-> "pending"])

Booking_create(user_id, facility_id, booking_date, start_time, end_time, purpose) ==
    bookings @@ (nextBookingId :>
        [user_id |-> user_id, facility_id |-> facility_id,
         booking_date |-> booking_date, start_time |-> start_time,
         end_time |-> end_time, purpose |-> purpose, status |-> "pending"])

\* Booking.update_status without its WHERE clause.
Booking_update_status_NoWhere(booking_id, status) ==
    [b \in DOMAIN bookings |-> [bookings[b] EXCEPT !.status = status]]

\* Booking.update_status that reopens a row which already has the requested
\* status.
Booking_update_status_Reopen(booking_id, status) ==
    [b \in DOMAIN bookings |->
        IF b = booking_id
        THEN [bookings[b] EXCEPT
                !.status = IF bookings[b].status = status THEN "pending" ELSE status]
        ELSE bookings[b]]

\* Booking.update_status with "AND status = 'pending'".
Booking_update_status_PendingOnly(booking_id, status) ==
    [b \in DOMAIN bookings |->
        IF b = booking_id /\ bookings[b].status = "pending"
        THEN [bookings[b] EXCEPT !.status = status]
        ELSE bookings[b]]

Booking_update_status(booking_id, status) ==
    [b \in DOMAIN bookings |->
        IF b = booking_id
        THEN [bookings[b] EXCEPT !.status = status]
        ELSE bookings[b]]

\* Booking.cancel with "AND status IN ('pending', 'approved')".
Booking_cancel_PendingOrApproved(booking_id, user_id) ==
    [b \in DOMAIN bookings |->
        IF /\ b = booking_id
           /\ bookings[b].user_id = user_id
           /\ bookings[b].status \in {"pending", "approved"}
        THEN [bookings[b] EXCEPT !.status = "cancelled"]
        ELSE bookings[b]]

\* Booking.cancel without "AND status = 'pending'".
Booking_cancel_AnyStatus(booking_id, user_id) ==
    [b \in DOMAIN bookings |->
        IF b = booking_id /\ bookings[b].user_id = user_id
        THEN [bookings[b] EXCEPT !.status = "cancelled"]
        ELSE bookings[b]]

Booking_cancel(booking_id, user_id) ==
    [b \in DOMAIN bookings |->
        IF /\ b = booking_id
           /\ bookings[b].user_id = user_id
           /\ bookings[b].status = "pending"
        THEN [bookings[b] EXCEPT !.status = "cancelled"]
        ELSE bookings[b]]

\* cursor.rowcount of a statement that leaves the table as "after": the rows
\* inserted or changed.
RowCount(after) ==
    Cardinality({ b \in DOMAIN after : b \notin DOMAIN bookings \/ after[b] # bookings[b] })

\* A handler that reports a request which changed no row as a no-op.
TransitionOutcome_ByRowCount(rowcount) == IF rowcount = 0 THEN "no_op" ELSE "ok"

\* The handlers drop the row count Booking.cancel and Booking.update_status
\* return and flash their success message.
TransitionOutcome(rowcount) == "ok"

\* get_user_stats without "WHERE user_id = %s".
UserRows_AllUsers(user_id) == DOMAIN bookings

\* COUNT(*) over the rows of a user, and SUM(status = s), NULL over no rows.
UserRows(user_id) == { b \in DOMAIN bookings : bookings[b].user_id = user_id }

RECURSIVE SumStatus(_, _)
SumStatus(rows, s) ==
    IF rows = {} THEN 0
    ELSE LET b == CHOOSE x \in rows : TRUE
         IN  (IF bookings[b].status = s THEN 1 ELSE 0) + SumStatus(rows \ {b}, s)

\* An SQL aggregate value: SUM over no rows is NULL.
SqlSum(rows, s) ==
    IF rows = {} THEN [isnull |-> TRUE, value |-> 0]
    ELSE [isnull |-> FALSE, value |-> SumStatus(rows, s)]

\* Python's "v or 0": None and 0 both give 0.
OrZero(v) == IF v.isnull \/ v.value = 0 THEN 0 ELSE v.value

Booking_get_user_stats(user_id) ==
    LET rows == UserRows(user_id)
    IN  [total    |-> Cardinality(rows),
         pending  |-> OrZero(SqlSum(rows, "pending")),
         approved |-> OrZero(SqlSum(rows, "approved"))]

\* get_upcoming_by_user without "AND b.booking_date >= CURDATE()".
UpcomingRows_AnyDate(user_id, now) ==
    { b \in DOMAIN bookings :
        /\ bookings[b].facility_id \in DOMAIN facilities
        /\ bookings[b].user_id = user_id
        /\ bookings[b].status \in {"pending", "approved"} }

\* The rows get_upcoming_by_user selects: bookings JOIN facilities WHERE ...
UpcomingRows(user_id, now) ==
    { b \in DOMAIN bookings :
        /\ bookings[b].facility_id \in DOMAIN facilities
        /\ bookings[b].user_id = user_id
        /\ bookings[b].booking_date >= now
        /\ bookings[b].status \in {"pending", "approved"} }

\* ORDER BY b.booking_date ASC, b.start_time ASC: b1 may come before b2.
OrderBy(b1, b2) ==
    \/ bookings[b1].booking_date < bookings[b2].booking_date
    \/ /\ bookings[b1].booking_date = bookings[b2].booking_date
       /\ bookings[b1].start_time <= bookings[b2].start_time

\* The orders in which the server may list the rows: rows with equal sort keys
\* come in either order.
Ordered(rows) ==
    { q \in [1 .. Cardinality(rows) -> rows] :
        /\ \A i, j \in DOMAIN q : i # j => q[i] # q[j]
        /\ \A i, j \in DOMAIN q : i < j => OrderBy(q[i], q[j]) }

\* LIMIT %s
Limit(q, limit) == SubSeq(q, 1, IF limit < Len(q) THEN limit ELSE Len(q))

\* The results the query may give, as sequences of booking ids.
Booking_get_upcoming_by_user(user_id, limit, now) ==
    { Limit(q, limit) : q \in Ordered(UpcomingRows(user_id, now)) }

Booking_get_total_count == Cardinality(DOMAIN bookings)
Booking_get_pending_count ==
    Cardinality({ b \in DOMAIN bookings : bookings[b].status = "pending" })
Booking_get_approved_count ==
    Cardinality({ b \in DOMAIN bookings : bookings[b].status = "approved" })
Booking_get_rejected_count ==
    Cardinality({ b \in DOMAIN bookings : bookings[b].status = "rejected" })

----------------------------------------------------------------------------
(* The tables after init_database, with an administrator and a member of   *)
(* staff registered; no facility and no booking yet                       *)

Init ==
    /\ users = << [email |-> "a@x.org", role |-> "admin"],
                  [email |-> "b@x.org", role |-> "staff"] >>
    /\ facilities = << >>
    /\ nextFacilityId = 1
    /\ bookings = << >>
    /\ nextBookingId = 1
    /\ today = 0
    /\ inflight = << >>
    /\ last = Response("init", 0, 0, "ok")
    /\ deleting = << >>
    /\ dashboard = NoDashboard
    /\ held = 0
    /\ queries = << >>
    /\ updating = << >>
    /\ racing = << >>

Actors == 1 .. Len(users)

\* The clock of the host: date.today() and CURDATE() move on.
AdvanceDay ==
    /\ today < MaxDay
    /\ today' = today + 1
    /\ last' = Response("tick", 0, 0, "ok")
    /\ UNCHANGED <<users, facilities, nextFacilityId, bookings, nextBookingId, inflight>>
    /\ UNCHANGED stepwise

(* app.py: register *)
register(email, role, formOk) ==
    /\ IF ~formOk
       THEN /\ last' = Response("register", 0, 0, "invalid")
            /\ UNCHANGED users
       ELSE IF User_get_by_email(email) # {}
       THEN /\ last' = Response("register", 0, 0, "duplicate")
            /\ UNCHANGED users
       ELSE /\ users' = User_create(email, role)
            /\ last' = Response("register", 0, Len(users) + 1, "ok")
    /\ UNCHANGED <<facilities, nextFacilityId, bookings, nextBookingId, today, inflight>>
    /\ UNCHANGED stepwise

\* create_booking on a form that did not validate: one fixed message is
\* flashed and the caller is redirected; the form and its errors are dropped.
InvalidBookingFlash(errors) == "Invalid booking data."

\* Booking.create through execute_query: the row is inserted and the call
\* returns cursor.rowcount, or the statement raises on a broken constraint and
\* nothing is written.
InsertBooking(op, u, form) ==
    IF InsertAllowed(u, form.facility_id, form.booking_date)
    THEN /\ nextBookingId <= MaxBookings
         /\ bookings' = Booking_create(u, form.facility_id, form.booking_date,
                                       form.start_time, form.end_time, form.purpose)
         /\ nextBookingId' = nextBookingId + 1
         /\ last' = [Response(op, u, nextBookingId, "ok") EXCEPT
                        !.form = form,
                        !.returned = RowCount(Booking_create(u, form.facility_id,
                                        form.booking_date, form.start_time,
                                        form.end_time, form.purpose))]
    ELSE /\ last' = [Response(op, u, 0, "error") EXCEPT !.form = form]
         /\ UNCHANGED <<bookings, nextBookingId>>

(* app.py: create_booking, as one step *)
create_booking(u, form) ==
    /\ IF ~is_staff(u)
       THEN /\ last' = Response("create_booking", u, 0, "forbidden")
            /\ UNCHANGED <<bookings, nextBookingId>>
       ELSE IF ~BookingForm_validate(form, today)
       THEN /\ last' = [Response("create_booking", u, 0, "invalid") EXCEPT
                           !.form = form,
                           !.message = InvalidBookingFlash(end_time_errors(form))]
            /\ UNCHANGED <<bookings, nextBookingId>>
       ELSE InsertBooking("create_booking", u, form)
    /\ UNCHANGED <<users, facilities, nextFacilityId, today, inflight>>
    /\ UNCHANGED stepwise

(* app.py: create_booking, as two steps: the role check and the form          *)
(* validation, then the insert, with other requests in between                *)
create_booking_begin(u, form) ==
    /\ IF ~is_staff(u)
       THEN /\ last' = Response("create_booking_begin", u, 0, "forbidden")
            /\ UNCHANGED inflight
       ELSE IF ~BookingForm_validate(form, today)
       THEN /\ last' = [Response("create_booking_begin", u, 0, "invalid") EXCEPT !.form = form]
            /\ UNCHANGED inflight
       ELSE /\ Len(inflight) < MaxInflight
            /\ inflight' = Append(inflight, [actor |-> u, form |-> form])
            /\ last' = [Response("create_booking_begin", u, 0, "validated") EXCEPT !.form = form]
    /\ UNCHANGED <<users, facilities, nextFacilityId, bookings, nextBookingId, today>>
    /\ UNCHANGED stepwise

create_booking_commit(i) ==
    /\ i \in 1 .. Len(inflight)
    /\ InsertBooking("create_booking_commit", inflight[i].actor, inflight[i].form)
    /\ inflight' = SubSeq(inflight, 1, i - 1) \o SubSeq(inflight, i + 1, Len(inflight))
    /\ UNCHANGED <<users, facilities, nextFacilityId, today>>
    /\ UNCHANGED stepwise

StatusOf(booking_id) ==
    IF booking_id \in DOMAIN bookings THEN bookings[booking_id].status ELSE ""

(* app.py: cancel_booking *)
cancel_booking_request(u, booking_id) ==
    /\ IF ~is_staff(u)
       THEN /\ last' = [Response("cancel_booking", u, booking_id, "forbidden") EXCEPT !.was = StatusOf(booking_id)]
            /\ UNCHANGED bookings
       ELSE /\ bookings' = Booking_cancel(booking_id, u)
            /\ last' = [Response("cancel_booking", u, booking_id,
                                  TransitionOutcome(RowCount(Booking_cancel(booking_id, u))))
                          EXCEPT !.was = StatusOf(booking_id)]
    /\ UNCHANGED <<users, facilities, nextFacilityId, nextBookingId, today, inflight>>

cancel_booking(u, booking_id) ==
    /\ cancel_booking_request(u, booking_id)
    /\ UNCHANGED stepwise

(* app.py: approve_booking *)
approve_booking_request(u, booking_id) ==
    /\ IF ~is_admin(u)
       THEN /\ last' = [Response("approve_booking", u, booking_id, "forbidden") EXCEPT !.was = StatusOf(booking_id)]
            /\ UNCHANGED bookings
       ELSE /\ bookings' = Booking_update_status(booking_id, "approved")
            /\ last' = [Response("approve_booking", u, booking_id,
                                  TransitionOutcome(RowCount(Booking_update_status(booking_id, "approved"))))
                          EXCEPT !.was = StatusOf(booking_id)]
    /\ UNCHANGED <<users, facilities, nextFacilityId, nextBookingId, today, inflight>>

approve_booking(u, booking_id) ==
    /\ approve_booking_request(u, booking_id)
    /\ UNCHANGED stepwise

(* app.py: reject_booking *)
reject_booking_request(u, booking_id) ==
    /\ IF ~is_admin(u)
       THEN /\ last' = [Response("reject_booking", u, booking_id, "forbidden") EXCEPT !.was = StatusOf(booking_id)]
            /\ UNCHANGED bookings
       ELSE /\ bookings' = Booking_update_status(booking_id, "rejected")
            /\ last' = [Response("reject_booking", u, booking_id,
                                  TransitionOutcome(RowCount(Booking_update_status(booking_id, "rejected"))))
                          EXCEPT !.was = StatusOf(booking_id)]
    /\ UNCHANGED <<users, facilities, nextFacilityId, nextBookingId, today, inflight>>

reject_booking(u, booking_id) ==
    /\ reject_booking_request(u, booking_id)
    /\ UNCHANGED stepwise

(* app.py: approve_booking or reject_booking by an admin and cancel_booking *)
(* by the owner, posted for one pending booking at the same time. Each      *)
(* handler touches the table with one UPDATE statement, which the database  *)
(* runs as a whole; the two requests are served in either order.            *)

DecisionOps == {"approve_booking", "reject_booking"}

\* The status the handler of a decision writes.
DecidedStatus(op) == IF op = "approve_booking" THEN "approved" ELSE "rejected"

\* The requests of a pair that have not been served.
Waiting(pair) ==
    {pair.decision, "cancel_booking"} \ { pair.served[k] : k \in 1 .. Len(pair.served) }

decide_and_cancel_arrive(a, booking_id, decision) ==
    /\ Len(racing) < MaxInflight
    /\ is_admin(a)
    /\ booking_id \in DOMAIN bookings
    /\ bookings[booking_id].status = "pending"
    /\ \A i \in 1 .. Len(racing) : racing[i].target # booking_id
    /\ racing' = Append(racing,
           [target |-> booking_id, admin |-> a, owner |-> bookings[booking_id].user_id,
            decision |-> decision, served |-> << >>])
    /\ last' = Response("arrive", a, booking_id, "ok")
    /\ UNCHANGED <<users, facilities, nextFacilityId, bookings, nextBookingId, today, inflight>>
    /\ UNCHANGED <<deleting, dashboard, held, queries, updating>>

decide_and_cancel_serve(i, op) ==
    /\ i \in 1 .. Len(racing)
    /\ op \in Waiting(racing[i])
    /\ CASE op = "cancel_booking"  -> cancel_booking_request(racing[i].owner, racing[i].target)
         [] op = "approve_booking" -> approve_booking_request(racing[i].admin, racing[i].target)
         [] op = "reject_booking"  -> reject_booking_request(racing[i].admin, racing[i].target)
    /\ racing' = [racing EXCEPT ![i].served = Append(@, op)]
    /\ UNCHANGED <<deleting, dashboard, held, queries, updating>>

(* app.py: create_facility *)
create_facility(u, form) ==
    /\ IF ~is_admin(u)
       THEN /\ last' = Response("create_facility", u, 0, "forbidden")
            /\ UNCHANGED <<facilities, nextFacilityId>>
       ELSE IF ~FacilityForm_validate(form)
       THEN /\ last' = Response("create_facility", u, 0, "invalid")
            /\ UNCHANGED <<facilities, nextFacilityId>>
       ELSE /\ nextFacilityId <= MaxFacilities
            /\ facilities' = Facility_create(form.name, form.capacity, NULL, form.status,
                                 IF form.upload # "" THEN ImageName(form.upload) ELSE NULL)
            /\ nextFacilityId' = nextFacilityId + 1
            /\ last' = Response("create_facility", u, nextFacilityId, "ok")
    /\ UNCHANGED <<users, bookings, nextBookingId, today, inflight>>
    /\ UNCHANGED stepwise

(* app.py: update_facility *)
update_facility(u, form) ==
    /\ IF ~is_admin(u)
       THEN /\ last' = Response("update_facility", u, form.facility_id, "forbidden")
            /\ UNCHANGED facilities
       ELSE IF ~FacilityForm_validate(form)
       THEN /\ last' = Response("update_facility", u, form.facility_id, "invalid")
            /\ UNCHANGED facilities
       ELSE IF form.facility_id = NoId
       THEN /\ last' = Response("update_facility", u, form.facility_id, "missing_id")
            /\ UNCHANGED facilities
       ELSE IF ~Facility_get_by_id(form.facility_id)
       THEN /\ last' = Response("update_facility", u, form.facility_id, "not_found")
            /\ UNCHANGED facilities
       ELSE /\ facilities' = Facility_update(form.facility_id, form.name, form.capacity, NULL,
                                 form.status,
                                 IF form.upload # "" THEN ImageName(form.upload)
                                 ELSE facilities[form.facility_id].image)
            /\ last' = [Response("update_facility", u, form.facility_id, "ok") EXCEPT
                           !.upload = form.upload]
    /\ UNCHANGED <<users, nextFacilityId, bookings, nextBookingId, today, inflight>>
    /\ UNCHANGED stepwise

(* app.py: update_facility, as two steps: the checks and the read of the   *)
(* facility, then the UPDATE, with other requests in between               *)
update_facility_begin(u, form) ==
    /\ IF ~is_admin(u)
       THEN /\ last' = Response("update_facility_begin", u, form.facility_id, "forbidden")
            /\ UNCHANGED updating
       ELSE IF ~FacilityForm_validate(form)
       THEN /\ last' = Response("update_facility_begin", u, form.facility_id, "invalid")
            /\ UNCHANGED updating
       ELSE IF form.facility_id = NoId
       THEN /\ last' = Response("update_facility_begin", u, form.facility_id, "missing_id")
            /\ UNCHANGED updating
       ELSE IF ~Facility_get_by_id(form.facility_id)
       THEN /\ last' = Response("update_facility_begin", u, form.facility_id, "not_found")
            /\ UNCHANGED updating
       ELSE /\ Len(updating) < MaxInflight
            /\ updating' = Append(updating,
                   [actor |-> u, form |-> form,
                    image_name |-> IF form.upload # "" THEN ImageName(form.upload)
                                   ELSE facilities[form.facility_id].image])
            /\ last' = [Response("update_facility_begin", u, form.facility_id, "read") EXCEPT
                           !.upload = form.upload]
    /\ UNCHANGED <<users, facilities, nextFacilityId, bookings, nextBookingId, today, inflight>>
    /\ UNCHANGED <<deleting, dashboard, held, queries, racing>>

update_facility_commit(i) ==
    /\ i \in 1 .. Len(updating)
    /\ LET form == updating[i].form
       IN  /\ facilities' = Facility_update(form.facility_id, form.name, form.capacity, NULL,
                                            form.status, updating[i].image_name)
           /\ last' = [Response("update_facility_commit", updating[i].actor,
                                form.facility_id, "ok") EXCEPT !.upload = form.upload]
    /\ updating' = SubSeq(updating, 1, i - 1) \o SubSeq(updating, i + 1, Len(updating))
    /\ UNCHANGED <<users, nextFacilityId, bookings, nextBookingId, today, inflight>>
    /\ UNCHANGED <<deleting, dashboard, held, queries, racing>>

(* app.py: delete_facility *)
delete_facility(u, facility_id) ==
    /\ IF ~is_admin(u)
       THEN /\ last' = Response("delete_facility", u, facility_id, "forbidden")
            /\ UNCHANGED <<facilities, bookings>>
       ELSE IF ~Facility_get_by_id(facility_id)
       THEN /\ last' = Response("delete_facility", u, facility_id, "not_found")
            /\ UNCHANGED <<facilities, bookings>>
       ELSE IF Facility_has_active_bookings(facility_id)
       THEN /\ last' = Response("delete_facility", u, facility_id, "refused")
            /\ UNCHANGED <<facilities, bookings>>
       ELSE /\ facilities' = Facility_delete(facility_id)
            /\ bookings' = CascadeDelete(facility_id)
            /\ last' = Response("delete_facility", u, facility_id, "ok")
    /\ UNCHANGED <<users, nextFacilityId, nextBookingId, today, inflight>>
    /\ UNCHANGED stepwise

(* app.py: delete_facility, as two steps: the role check and the two reads, *)
(* then the DELETE, with other requests in between                         *)
delete_facility_begin(u, facility_id) ==
    /\ IF ~is_admin(u)
       THEN /\ last' = Response("delete_facility_begin", u, facility_id, "forbidden")
            /\ UNCHANGED deleting
       ELSE IF ~Facility_get_by_id(facility_id)
       THEN /\ last' = Response("delete_facility_begin", u, facility_id, "not_found")
            /\ UNCHANGED deleting
       ELSE IF Facility_has_active_bookings(facility_id)
       THEN /\ last' = Response("delete_facility_begin", u, facility_id, "refused")
            /\ UNCHANGED deleting
       ELSE /\ Len(deleting) < MaxInflight
            /\ deleting' = Append(deleting, [actor |-> u, facility_id |-> facility_id])
            /\ last' = Response("delete_facility_begin", u, facility_id, "checked")
    /\ UNCHANGED <<users, facilities, nextFacilityId, bookings, nextBookingId, today, inflight>>
    /\ UNCHANGED <<dashboard, held, queries, updating, racing>>

delete_facility_commit(i) ==
    /\ i \in 1 .. Len(deleting)
    /\ facilities' = Facility_delete(deleting[i].facility_id)
    /\ bookings' = CascadeDelete(deleting[i].facility_id)
    /\ last' = Response("delete_facility_commit", deleting[i].actor, deleting[i].facility_id, "ok")
    /\ deleting' = SubSeq(deleting, 1, i - 1) \o SubSeq(deleting, i + 1, Len(deleting))
    /\ UNCHANGED <<users, nextFacilityId, nextBookingId, today, inflight>>
    /\ UNCHANGED <<dashboard, held, queries, updating, racing>>

(* app.py: admin_dashboard, one count query at a time, with other requests *)
(* in between: total, pending, approved, rejected                          *)
admin_dashboard_begin(u) ==
    /\ dashboard = NoDashboard
    /\ IF ~is_admin(u)
       THEN /\ last' = Response("admin_dashboard", u, 0, "forbidden")
            /\ UNCHANGED dashboard
       ELSE /\ dashboard' = [actor |-> u, read |-> <<Booking_get_total_count>>]
            /\ last' = Response("admin_dashboard_begin", u, 0, "reading")
    /\ UNCHANGED <<users, facilities, nextFacilityId, bookings, nextBookingId, today, inflight>>
    /\ UNCHANGED <<deleting, held, queries, updating, racing>>

\* The next query of the request; after the rejected count the page is
\* rendered with the four numbers.
admin_dashboard_read ==
    /\ dashboard # NoDashboard
    /\ LET read == dashboard.read
           count == IF Len(read) = 1 THEN Booking_get_pending_count
                    ELSE IF Len(read) = 2 THEN Booking_get_approved_count
                    ELSE Booking_get_rejected_count
       IN  IF Len(read) < 3
           THEN /\ dashboard' = [dashboard EXCEPT !.read = Append(read, count)]
                /\ last' = Response("admin_dashboard_read", dashboard.actor, 0, "reading")
           ELSE /\ dashboard' = NoDashboard
                /\ last' = [Response("admin_dashboard", dashboard.actor, 0, "ok") EXCEPT
                               !.stats = [total |-> read[1], pending |-> read[2],
                                          approved |-> read[3], rejected |-> count]]
    /\ UNCHANGED <<users, facilities, nextFacilityId, bookings, nextBookingId, today, inflight>>
    /\ UNCHANGED <<deleting, held, queries, updating, racing>>

(* models.py: execute_query running the INSERT of Booking.create for a      *)
(* create-booking request that passed the role check and the validation,   *)
(* as two steps: taking the connection, then the statement and the close   *)
execute_query_connect(u, form) ==
    /\ is_staff(u)
    /\ BookingForm_validate(form, today)
    /\ Len(queries) < MaxInflight
    /\ IF held < pool_size
       THEN /\ held' = held + 1
            /\ queries' = Append(queries, [actor |-> u, form |-> form])
            /\ last' = [Response("execute_query_connect", u, 0, "connected") EXCEPT !.form = form]
       ELSE \* pool exhausted: get_db_connection logs the PoolError and returns
            \* None, and conn.cursor raises
            /\ last' = [Response("execute_query_connect", u, 0, "error") EXCEPT !.form = form]
            /\ UNCHANGED <<held, queries>>
    /\ UNCHANGED <<users, facilities, nextFacilityId, bookings, nextBookingId, today, inflight>>
    /\ UNCHANGED <<deleting, dashboard, updating, racing>>

\* cursor.execute, then commit, cursor.close and conn.close; when the statement
\* raises, the exception leaves execute_query before the two close calls.
execute_query_execute(i) ==
    /\ i \in 1 .. Len(queries)
    /\ InsertBooking("execute_query_execute", queries[i].actor, queries[i].form)
    /\ held' = IF InsertAllowed(queries[i].actor, queries[i].form.facility_id,
                                queries[i].form.booking_date)
               THEN held - 1
               ELSE held
    /\ queries' = SubSeq(queries, 1, i - 1) \o SubSeq(queries, i + 1, Len(queries))
    /\ UNCHANGED <<users, facilities, nextFacilityId, today, inflight>>
    /\ UNCHANGED <<deleting, dashboard, updating, racing>>

(* app.py: staff_dashboard *)
staff_dashboard(u) ==
    /\ IF ~is_staff(u)
       THEN last' = Response("staff_dashboard", u, 0, "forbidden")
       ELSE \E listed \in Booking_get_upcoming_by_user(u, DashboardLimit, today) :
               last' = [Response("staff_dashboard", u, 0, "ok") EXCEPT
                           !.stats = Booking_get_user_stats(u),
                           !.upcoming = listed]
    /\ UNCHANGED <<users, facilities, nextFacilityId, bookings, nextBookingId, today, inflight>>
    /\ UNCHANGED stepwise

(* app.py: api_stats *)
api_stats(u) ==
    /\ last' = [Response("api_stats", u, 0, "ok") EXCEPT !.stats =
                   IF is_admin(u)
                   THEN [total    |-> Booking_get_total_count,
                         pending  |-> Booking_get_pending_count,
                         approved |-> Booking_get_approved_count]
                   ELSE Booking_get_user_stats(u)]
    /\ UNCHANGED <<users, facilities, nextFacilityId, bookings, nextBookingId, today, inflight>>
    /\ UNCHANGED stepwise

----------------------------------------------------------------------------------------------------------------------------------------
(* Input scopes of the specifications *)

\* The forms a caller gets to submit: a caller refused by the role check
\* is refused before the form is read.
BookingFormsOf(u, forms) == IF is_staff(u) THEN forms ELSE {NoBookingForm}
FacilityFormsOf(u, forms) == IF is_admin(u) THEN forms ELSE {FForm(NoId, "", 0, "", "")}

\* The tables once the administrator has added a facility.
SeededWith(registered) ==
    /\ users = registered
    /\ facilities = (1 :> [name |-> "Hall", capacity |-> 1, description |-> NULL,
                           status |-> "active", image |-> NULL])
    /\ nextFacilityId = 2
    /\ bookings = << >>
    /\ nextBookingId = 1
    /\ today = 0
    /\ inflight = << >>
    /\ last = Response("init", 0, 0, "ok")
    /\ deleting = << >>
    /\ dashboard = NoDashboard
    /\ held = 0
    /\ queries = << >>
    /\ updating = << >>
    /\ racing = << >>

InitFacility ==
    SeededWith(<< [email |-> "a@x.org", role |-> "admin"],
                  [email |-> "b@x.org", role |-> "staff"] >>)

\* And once a second member of staff has registered.
InitSeeded ==
    SeededWith(<< [email |-> "a@x.org", role |-> "admin"],
                  [email |-> "b@x.org", role |-> "staff"],
                  [email |-> "c@x.org", role |-> "staff"] >>)

(* Every handler behind a role check, served one request at a time *)

\* One accepted interval today for every facility id, and the same yesterday.
CoreForms ==
    { BForm(f, 0, <<540, 570>>, "team meeting") : f \in FacilityIds }
    \cup { BForm(1, 0 - 1, <<540, 570>>, "team meeting") }

\* The add form carries no facility id, the edit form any; one name too short.
AddFacilityForms ==
    { FForm(NoId, "Hall", 1, s, "") : s \in FacilityStatuses }
    \cup { FForm(NoId, "AB", 1, "active", "") }

EditFacilityForms ==
    { FForm(f, "Hall", 1, s, "") : f \in {NoId} \cup FacilityIds, s \in FacilityStatuses }
    \cup { FForm(1, "AB", 1, "active", "") }

Next ==
    \/ \E u \in Actors : \E form \in BookingFormsOf(u, CoreForms) : create_booking(u, form)
    \/ \E u \in Actors, b \in BookingIds : cancel_booking(u, b)
    \/ \E u \in Actors, b \in BookingIds : approve_booking(u, b)
    \/ \E u \in Actors, b \in BookingIds : reject_booking(u, b)
    \/ \E u \in Actors : \E form \in FacilityFormsOf(u, AddFacilityForms) : create_facility(u, form)
    \/ \E u \in Actors : \E form \in FacilityFormsOf(u, EditFacilityForms) : update_facility(u, form)
    \/ \E u \in Actors, f \in FacilityIds : delete_facility(u, f)

Spec == Init /\ [][Next]_vars

(* The booking lifecycle: two members of staff and an administrator acting  *)
(* on the bookings of one facility                                          *)

LifeForms ==
    { BForm(1, 0, <<540, 570>>, "team meeting"), BForm(1, MaxDay, <<540, 1020>>, "") }

NextLife ==
    \/ \E u \in Actors : \E form \in BookingFormsOf(u, LifeForms) : create_booking(u, form)
    \/ \E u \in Actors, b \in BookingIds : cancel_booking(u, b)
    \/ \E u \in Actors, b \in BookingIds : approve_booking(u, b)
    \/ \E u \in Actors, b \in BookingIds : reject_booking(u, b)
    \/ \E u \in Actors : api_stats(u)

SpecLife == InitSeeded /\ [][NextLife]_vars

(* Booking forms of every kind, while the days pass *)

NextForm ==
    \/ AdvanceDay
    \/ \E u \in {1, 2} : \E form \in BookingFormsOf(u, BookingForms) : create_booking(u, form)

SpecForm == InitSeeded /\ [][NextForm]_vars

(* Create-booking requests in flight while users register and the facility  *)
(* is deleted                                                               *)

OverlapForms == { BForm(1, 0, tp, "team meeting") : tp \in ValidPairs }

NextConc ==
    \/ \E e \in Emails, r \in Roles, ok \in BOOLEAN : register(e, r, ok)
    \/ \E u \in Actors : \E form \in BookingFormsOf(u, OverlapForms) : create_booking_begin(u, form)
    \/ \E i \in 1 .. MaxInflight : create_booking_commit(i)
    \/ \E u \in Actors : delete_facility(u, 1)

SpecConc == InitFacility /\ [][NextConc]_vars

(* The staff dashboard while bookings are made, approved, rejected and      *)
(* cancelled and the days pass                                              *)

\* The first member of staff books two start times today and one on the last
\* day, the second one of them.
UpcomingForms(u) ==
    IF u = 2
    THEN { BForm(1, 0, <<540, 570>>, "team meeting"), BForm(1, 0, <<600, 630>>, "team meeting"),
           BForm(1, MaxDay, <<540, 570>>, "team meeting") }
    ELSE { BForm(1, 0, <<540, 570>>, "team meeting") }

NextUpcoming ==
    \/ AdvanceDay
    \/ \E u \in {2, 3} : \E form \in UpcomingForms(u) : create_booking(u, form)
    \/ \E b \in DOMAIN bookings : cancel_booking(bookings[b].user_id, b)
    \/ \E b \in DOMAIN bookings : approve_booking(1, b)
    \/ \E b \in DOMAIN bookings : reject_booking(1, b)
    \/ \E u \in Actors : staff_dashboard(u)

SpecUpcoming == InitSeeded /\ [][NextUpcoming]_vars

(* A delete-facility request served in two steps while bookings of the     *)
(* facility are made, approved, rejected and cancelled                      *)

NextRace ==
    \/ \E form \in LifeForms : create_booking(2, form)
    \/ \E b \in DOMAIN bookings : cancel_booking(bookings[b].user_id, b)
    \/ \E b \in DOMAIN bookings : approve_booking(1, b)
    \/ \E b \in DOMAIN bookings : reject_booking(1, b)
    \/ \E u \in Actors : delete_facility_begin(u, 1)
    \/ \E i \in 1 .. MaxInflight : delete_facility_commit(i)

SpecRace == InitFacility /\ [][NextRace]_vars

(* An admin dashboard request served query by query while bookings are     *)
(* made, approved, rejected and cancelled                                   *)

NextStats ==
    \/ create_booking(2, BForm(1, 0, <<540, 570>>, "team meeting"))
    \/ \E b \in DOMAIN bookings : cancel_booking(bookings[b].user_id, b)
    \/ \E b \in DOMAIN bookings : approve_booking(1, b)
    \/ \E b \in DOMAIN bookings : reject_booking(1, b)
    \/ \E u \in Actors : admin_dashboard_begin(u)
    \/ admin_dashboard_read

SpecStats == InitFacility /\ [][NextStats]_vars

(* The connections of the pool while bookings are inserted for a facility  *)
(* that exists and for one that does not                                    *)

PoolForms == { BForm(f, 0, <<540, 570>>, "team meeting") : f \in {1, MaxFacilities + 1} }

NextPool ==
    \/ \E u \in Actors, form \in PoolForms : execute_query_connect(u, form)
    \/ \E i \in 1 .. MaxInflight : execute_query_execute(i)

SpecPool == InitFacility /\ [][NextPool]_vars

(* Update-facility requests served in two steps, with and without a new    *)
(* image, next to ones served in one step                                   *)

ImageForms == { FForm(1, "Hall", 1, s, up) : s \in FacilityStatuses, up \in Uploads }

NextImage ==
    \/ \E u \in Actors : \E form \in FacilityFormsOf(u, ImageForms) : update_facility(u, form)
    \/ \E u \in Actors : \E form \in FacilityFormsOf(u, ImageForms) : update_facility_begin(u, form)
    \/ \E i \in 1 .. MaxInflight : update_facility_commit(i)

SpecImage == InitFacility /\ [][NextImage]_vars

(* Bookings made by a member of staff, and for a pending booking an admin's *)
(* decision and the owner's cancel in flight together                        *)

NextDecide ==
    \/ \E form \in LifeForms : create_booking(2, form)
    \/ \E a \in Actors, b \in BookingIds, decision \in DecisionOps :
          decide_and_cancel_arrive(a, b, decision)
    \/ \E i \in 1 .. MaxInflight, op \in DecisionOps \cup {"cancel_booking"} :
          decide_and_cancel_serve(i, op)

SpecDecide == InitFacility /\ [][NextDecide]_vars

----------------------------------------------------------------------------
(* Properties *)

\* The bookings table after the status of row b is set to s.
WithStatus(b, s) == [bookings EXCEPT ![b].status = s]

\* C1: a cancel request by u on b sets b's status to 'cancelled' if and only
\* if b exists, is pending and is owned by u; in every other case no booking
\* row changes (an approved booking stays approved when its owner cancels).
C1_CancelOnlyPendingByOwner ==
    [][last'.op = "cancel_booking" =>
        LET u == last'.actor
            b == last'.target
        IN  IF /\ b \in DOMAIN bookings
               /\ bookings[b].status = "pending"
               /\ bookings[b].user_id = u
            THEN bookings' = WithStatus(b, "cancelled")
            ELSE bookings' = bookings]_vars

\* An owner's cancel of an approved booking was served and the booking is
\* still approved.
C1_Witness ==
    /\ last.op = "cancel_booking"
    /\ last.outcome = "ok"
    /\ last.was = "approved"
    /\ last.target \in DOMAIN bookings
    /\ bookings[last.target].user_id = last.actor
    /\ bookings[last.target].status = "approved"

\* C2: the status of a booking changes only from 'pending'; an approved,
\* rejected or cancelled booking never changes status again.
C2_OneWayLifecycle ==
    [][\A b \in DOMAIN bookings \cap DOMAIN bookings' :
          bookings'[b].status # bookings[b].status => bookings[b].status = "pending"]_vars

\* C3: an admin's approve (reject) of an existing booking sets its status to
\* 'approved' ('rejected') whatever the status was, and changes no other row;
\* a cancel never changes a booking that is not pending.
C3_AdminOverwritesCancelDoesNot ==
    [][/\ (/\ last'.op = "approve_booking"
           /\ is_admin(last'.actor)
           /\ last'.target \in DOMAIN bookings)
          => bookings' = WithStatus(last'.target, "approved")
       /\ (/\ last'.op = "reject_booking"
           /\ is_admin(last'.actor)
           /\ last'.target \in DOMAIN bookings)
          => bookings' = WithStatus(last'.target, "rejected")
       /\ last'.op = "cancel_booking"
          => \A b \in DOMAIN bookings :
                bookings[b].status # "pending" =>
                    b \in DOMAIN bookings' /\ bookings'[b] = bookings[b]]_vars

\* An admin's approve of a cancelled booking was served and the booking is
\* approved.
C3_Witness ==
    /\ last.op = "approve_booking"
    /\ last.was = "cancelled"
    /\ last.target \in DOMAIN bookings
    /\ bookings[last.target].status = "approved"

\* The interval of a form or of a row is a same-day interval of 30 minutes to
\* 8 hours.
DurationOK(r) ==
    /\ r.start_time # NoTime
    /\ r.end_time # NoTime
    /\ r.end_time > r.start_time
    /\ r.end_time - r.start_time >= MIN_BOOKING_DURATION
    /\ r.end_time - r.start_time <= MAX_BOOKING_DURATION

\* Everything but the date of the form is acceptable, and its facility exists.
ValidBesidesDate(form) ==
    /\ DurationOK(form)
    /\ TextLen(form.purpose) <= 500
    /\ form.facility_id \in DOMAIN facilities

\* C4: every persisted booking has end_time > start_time and a duration of 30
\* to 480 minutes, both inclusive; a create request outside these bounds is
\* rejected and persists no row, one inside them is not rejected for its times.
C4_DurationWithinBounds ==
    [][/\ \A b \in DOMAIN bookings' : DurationOK(bookings'[b])
       /\ (/\ last'.op = "create_booking"
           /\ last'.outcome # "forbidden"
           /\ ~DurationOK(last'.form))
          => last'.outcome = "invalid" /\ bookings' = bookings
       /\ (/\ last'.op = "create_booking"
           /\ last'.outcome # "forbidden"
           /\ ValidBesidesDate(last'.form)
           /\ last'.form.booking_date >= today)
          => last'.outcome = "ok"]_vars

\* A booking of exactly 30 minutes and one of exactly 8 hours are persisted.
C4_Witness ==
    /\ \E b \in DOMAIN bookings :
          bookings[b].end_time - bookings[b].start_time = MIN_BOOKING_DURATION
    /\ \E b \in DOMAIN bookings :
          bookings[b].end_time - bookings[b].start_time = MAX_BOOKING_DURATION
    /\ last.op = "create_booking"

\* C5: a create-booking request with booking_date before today fails with a
\* validation error and leaves the bookings table unchanged; one with
\* booking_date today or later is not rejected by the date rule.
C5_PastDateRejected ==
    [][(last'.op = "create_booking" /\ last'.outcome # "forbidden") =>
          /\ last'.form.booking_date < today
                => last'.outcome = "invalid" /\ bookings' = bookings
          /\ (last'.form.booking_date >= today /\ ValidBesidesDate(last'.form))
                => last'.outcome = "ok"]_vars

\* A request whose only fault is yesterday's date was refused as invalid.
C5_Witness ==
    /\ last.op = "create_booking"
    /\ last.outcome = "invalid"
    /\ last.form.booking_date = today - 1
    /\ ValidBesidesDate(last.form)

\* C6: a successful create-booking request inserts exactly one row, pending,
\* owned by the requester and carrying the submitted values; no step creates a
\* booking in another status, and a failed create inserts nothing.
C6_CreateInsertsPendingRow ==
    [][/\ (last'.op = "create_booking" /\ last'.outcome = "ok") =>
             /\ last'.target \notin DOMAIN bookings
             /\ bookings' = bookings @@ (last'.target :>
                    [user_id      |-> last'.actor,
                     facility_id  |-> last'.form.facility_id,
                     booking_date |-> last'.form.booking_date,
                     start_time   |-> last'.form.start_time,
                     end_time     |-> last'.form.end_time,
                     purpose      |-> last'.form.purpose,
                     status       |-> "pending"])
       /\ (last'.op = "create_booking" /\ last'.outcome # "ok") => bookings' = bookings
       /\ \A b \in DOMAIN bookings' \ DOMAIN bookings :
             /\ bookings'[b].status = "pending"
             /\ last'.op = "create_booking"
             /\ last'.outcome = "ok"]_vars

\* A second booking was just created, for a later day and for 8 hours.
C6_Witness ==
    /\ last.op = "create_booking"
    /\ last.outcome = "ok"
    /\ last.target \in DOMAIN bookings
    /\ Cardinality(DOMAIN bookings) = 2
    /\ bookings[last.target].status = "pending"
    /\ bookings[last.target].booking_date > today
    /\ bookings[last.target].end_time = 1020

\* C7: an admin's delete of an existing facility f is refused, leaving the
\* facilities and the bookings unchanged, when some booking of f is pending or
\* approved; otherwise it removes the row of f and no other facility row.
C7_DeleteGuardedByActiveBookings ==
    [][(/\ last'.op = "delete_facility"
        /\ is_admin(last'.actor)
        /\ last'.target \in DOMAIN facilities) =>
          LET f == last'.target
          IN  IF \E b \in DOMAIN bookings :
                    /\ bookings[b].facility_id = f
                    /\ bookings[b].status \in {"pending", "approved"}
              THEN /\ last'.outcome = "refused"
                   /\ facilities' = facilities
                   /\ bookings' = bookings
              ELSE /\ last'.outcome = "ok"
                   /\ DOMAIN facilities' = DOMAIN facilities \ {f}
                   /\ \A g \in DOMAIN facilities' : facilities'[g] = facilities[g]]_vars

\* A delete was refused for a facility whose only booking is pending.
C7_Witness ==
    /\ last.op = "delete_facility"
    /\ last.outcome = "refused"
    /\ last.target \in DOMAIN facilities
    /\ \E b \in DOMAIN bookings :
          bookings[b].facility_id = last.target /\ bookings[b].status = "pending"
    /\ \A b \in DOMAIN bookings : bookings[b].status # "approved"

\* A facility whose bookings were all rejected or cancelled was deleted.
C7_DeletedWithClosedBookings ==
    /\ last.op = "delete_facility"
    /\ last.outcome = "ok"
    /\ nextBookingId > 1
    /\ nextFacilityId = 2
    /\ DOMAIN facilities = {}

\* C8: a validated create-booking request inserts its pending row whatever
\* bookings exist or are in flight: validation depends on the caller and the
\* form alone, and the insert fails only when the facility row is gone.
C8_OverlappingCreatesSucceed ==
    [][/\ (last'.op = "create_booking_begin" /\ users[last'.actor].role = "staff") =>
             ((DurationOK(last'.form) /\ TextLen(last'.form.purpose) <= 500
                  /\ last'.form.booking_date >= today)
                => (last'.outcome = "validated"
                    /\ inflight' = Append(inflight,
                          [actor |-> last'.actor, form |-> last'.form])))
       /\ last'.op = "create_booking_commit" =>
             IF last'.form.facility_id \in DOMAIN facilities
             THEN /\ last'.outcome = "ok"
                  /\ last'.target \notin DOMAIN bookings
                  /\ DOMAIN bookings' = DOMAIN bookings \cup {last'.target}
                  /\ bookings'[last'.target].status = "pending"
                  /\ \A b \in DOMAIN bookings : bookings'[b] = bookings[b]
             ELSE last'.outcome = "error" /\ bookings' = bookings]_vars

Overlap(r1, r2) ==
    /\ r1.facility_id = r2.facility_id
    /\ r1.booking_date = r2.booking_date
    /\ r1.start_time < r2.end_time
    /\ r2.start_time < r1.end_time

\* Two staff users hold pending bookings of one facility on one date with
\* overlapping intervals, the second inserted while a third overlapping
\* request was in flight.
C8_Witness ==
    /\ last.op = "create_booking_commit"
    /\ last.outcome = "ok"
    /\ \E b1, b2 \in DOMAIN bookings :
          /\ b1 # b2
          /\ bookings[b1].user_id # bookings[b2].user_id
          /\ bookings[b1].status = "pending"
          /\ bookings[b2].status = "pending"
          /\ Overlap(bookings[b1], bookings[b2])
          /\ \E i \in 1 .. Len(inflight) : Overlap(inflight[i].form, bookings[b1])

CountOf(u, st) ==
    Cardinality({ b \in DOMAIN bookings :
                    bookings[b].user_id = u /\ bookings[b].status = st })

ExpectedStats(u) ==
    [total    |-> Cardinality({ b \in DOMAIN bookings : bookings[b].user_id = u }),
     pending  |-> CountOf(u, "pending"),
     approved |-> CountOf(u, "approved")]

\* C9: for every user u the per-user stats query gives total = the number of
\* u's bookings = u's pending + approved + rejected + cancelled bookings, and
\* pending and approved = u's counts in those statuses (all 0 without
\* bookings); the stats a staff caller was just given are these.
C9_UserStatsReconcile ==
    /\ \A u \in Actors :
          LET st == Booking_get_user_stats(u)
          IN  /\ st = ExpectedStats(u)
              /\ st.total = CountOf(u, "pending") + CountOf(u, "approved")
                              + CountOf(u, "rejected") + CountOf(u, "cancelled")
    /\ (last.op = "api_stats" /\ users[last.actor].role = "staff")
          => last.stats = ExpectedStats(last.actor)

\* A staff user with two bookings, one pending and one rejected or cancelled,
\* was given the stats, while another user has no booking.
C9_Witness ==
    /\ last.op = "api_stats"
    /\ users[last.actor].role = "staff"
    /\ last.stats.total = 2
    /\ last.stats.pending = 1
    /\ last.stats.approved = 0
    /\ \E u \in Actors : Booking_get_user_stats(u).total = 0

AdminOps == {"approve_booking", "reject_booking",
             "create_facility", "update_facility", "delete_facility"}
StaffOps == {"create_booking", "cancel_booking"}

\* C10: approve, reject and facility create/update/delete by a caller who is
\* not an admin, and create-booking and cancel by a caller who is not staff,
\* are refused as forbidden and leave users, facilities and bookings
\* unchanged; a caller with the required role is never refused as forbidden.
C10_RoleGates ==
    [][LET role == users[last'.actor].role
       IN  /\ (last'.op \in AdminOps /\ role # "admin") =>
                 /\ last'.outcome = "forbidden"
                 /\ UNCHANGED <<users, facilities, bookings>>
           /\ (last'.op \in StaffOps /\ role # "staff") =>
                 /\ last'.outcome = "forbidden"
                 /\ UNCHANGED <<users, facilities, bookings>>
           /\ (last'.op \in AdminOps /\ role = "admin") => last'.outcome # "forbidden"
           /\ (last'.op \in StaffOps /\ role = "staff") => last'.outcome # "forbidden"]_vars

\* An administrator's create-booking request was refused as forbidden while a
\* facility exists.
C10_Witness ==
    /\ last.op = "create_booking"
    /\ users[last.actor].role = "admin"
    /\ last.outcome = "forbidden"
    /\ DOMAIN facilities # {}

TransitionOps == {"approve_booking", "reject_booking", "cancel_booking"}

\* C11: an approve, reject or cancel request leaves every user, every facility
\* and every booking but the targeted one unchanged, and changes at most the
\* status field of the targeted booking; over every step a booking row that
\* stays in the table keeps its user_id, facility_id, booking_date, start_time,
\* end_time and purpose.
C11_OnlyStatusOfTargetChanges ==
    [][/\ last'.op \in TransitionOps =>
             /\ UNCHANGED <<users, facilities>>
             /\ DOMAIN bookings' = DOMAIN bookings
             /\ \A b \in DOMAIN bookings :
                   IF b = last'.target
                   THEN bookings'[b] = [bookings[b] EXCEPT !.status = bookings'[b].status]
                   ELSE bookings'[b] = bookings[b]
       /\ \A b \in DOMAIN bookings \cap DOMAIN bookings' :
             bookings'[b] = [bookings[b] EXCEPT !.status = bookings'[b].status]]_vars

\* A pending booking was just rejected while a booking of another user, made
\* with other values, is still pending.
C11_Witness ==
    /\ last.op = "reject_booking"
    /\ last.was = "pending"
    /\ last.target \in DOMAIN bookings
    /\ bookings[last.target].status = "rejected"
    /\ \E b \in DOMAIN bookings :
          /\ bookings[b].user_id # bookings[last.target].user_id
          /\ bookings[b].booking_date # bookings[last.target].booking_date
          /\ bookings[b].status = "pending"

\* The caller of a transition request has the role its handler asks for.
RoleAdmitted(op, u) ==
    IF op = "cancel_booking" THEN is_staff(u) ELSE is_admin(u)

\* C12: an approve, reject or cancel request by a caller with the required
\* role is answered with success whether it changed a row or changed none (no
\* such booking id; for cancel, a booking not pending or not the caller's).
C12_ZeroRowsReportedAsSuccess ==
    [][(last'.op \in TransitionOps /\ RoleAdmitted(last'.op, last'.actor)) =>
          /\ bookings' = bookings => last'.outcome = "ok"
          /\ bookings' # bookings => last'.outcome = "ok"]_vars

\* A cancel of another user's pending booking was answered with success and
\* the booking is still pending.
C12_Witness ==
    /\ last.op = "cancel_booking"
    /\ last.outcome = "ok"
    /\ last.was = "pending"
    /\ last.target \in DOMAIN bookings
    /\ bookings[last.target].user_id # last.actor
    /\ bookings[last.target].status = "pending"

\* C13: a successful create returns the booking_id of the row it inserted, so
\* two successive successful creates return different values.
C13_CreateReturnsNewId ==
    [][(last'.op = "create_booking" /\ last'.outcome = "ok") =>
          /\ last'.returned = last'.target
          /\ (last.op = "create_booking" /\ last.outcome = "ok")
                => last'.returned # last.returned]_vars

\* The bookings of u that are upcoming: not past, pending or approved.
Eligible(u) ==
    { b \in DOMAIN bookings :
        /\ bookings[b].user_id = u
        /\ bookings[b].booking_date >= today
        /\ bookings[b].status \in {"pending", "approved"} }

\* b1 sorts strictly before b2 by (booking_date, start_time).
StrictlyBefore(b1, b2) ==
    \/ bookings[b1].booking_date < bookings[b2].booking_date
    \/ /\ bookings[b1].booking_date = bookings[b2].booking_date
       /\ bookings[b1].start_time < bookings[b2].start_time

\* listed is the first n upcoming bookings of u in ascending order.
FirstUpcoming(listed, u, n) ==
    /\ Len(listed) = (IF n < Cardinality(Eligible(u)) THEN n ELSE Cardinality(Eligible(u)))
    /\ \A i \in DOMAIN listed : listed[i] \in Eligible(u)
    /\ \A i, j \in DOMAIN listed : i < j =>
          listed[i] # listed[j] /\ ~StrictlyBefore(listed[j], listed[i])
    /\ \A b \in Eligible(u) :
          (\A i \in DOMAIN listed : listed[i] # b) =>
              \A i \in DOMAIN listed : ~StrictlyBefore(b, listed[i])

\* C14: for every user u and limit n, every result the upcoming-bookings query
\* may give is the first n (or all, if fewer) of u's bookings with booking_date
\* >= today and status pending or approved, ascending by (booking_date,
\* start_time), without a booking of another user, a past, a rejected or a
\* cancelled one; the list a staff dashboard just showed is such a result.
C14_UpcomingQuery ==
    /\ \A u \in Actors, n \in 0 .. MaxLimit :
          /\ Booking_get_upcoming_by_user(u, n, today) # {}
          /\ \A listed \in Booking_get_upcoming_by_user(u, n, today) :
                FirstUpcoming(listed, u, n)
    /\ (last.op = "staff_dashboard" /\ last.outcome = "ok")
          => FirstUpcoming(last.upcoming, last.actor, DashboardLimit)

\* A dashboard listed two bookings of its user, the one booked later first
\* because it starts earlier.
C14_Witness ==
    /\ last.op = "staff_dashboard"
    /\ last.outcome = "ok"
    /\ Len(last.upcoming) = 2
    /\ last.upcoming[1] > last.upcoming[2]
    /\ StrictlyBefore(last.upcoming[1], last.upcoming[2])

\* A dashboard listed the one upcoming booking of its user and left out the
\* user's past booking.
C14_PastBookingLeftOut ==
    /\ last.op = "staff_dashboard"
    /\ last.outcome = "ok"
    /\ Len(last.upcoming) = 1
    /\ \E b \in DOMAIN bookings :
          /\ bookings[b].user_id = last.actor
          /\ bookings[b].booking_date < today
          /\ bookings[b].status = "pending"

\* The rule of the end-time validator that the interval of the form breaks.
BrokenRule(form) ==
    IF form.end_time <= form.start_time THEN "end_not_after_start"
    ELSE IF form.end_time - form.start_time > MAX_BOOKING_DURATION THEN "max_duration"
    ELSE IF form.end_time - form.start_time < MIN_BOOKING_DURATION THEN "min_duration"
    ELSE ""

\* C15: the failure reported for a create-booking request whose interval breaks
\* a rule cites that rule: end time not after start time when end_time <=
\* start_time, maximum duration when the interval is longer than 8 hours,
\* minimum duration when it is shorter than 30 minutes.
C15_FailureCitesRule ==
    [][(/\ last'.op = "create_booking"
        /\ last'.outcome = "invalid"
        /\ DataRequired(last'.form.start_time)
        /\ DataRequired(last'.form.end_time)
        /\ BrokenRule(last'.form) # "") =>
          last'.message = BrokenRule(last'.form)]_vars

\* The error the form attaches to its end_time field is the broken rule, and
\* the request is refused as invalid.
C15_FormErrorIsBrokenRule ==
    [][(/\ last'.op = "create_booking"
        /\ last'.outcome # "forbidden"
        /\ DataRequired(last'.form.start_time)
        /\ DataRequired(last'.form.end_time)) =>
          /\ end_time_errors(last'.form) = BrokenRule(last'.form)
          /\ BrokenRule(last'.form) # "" => last'.outcome = "invalid"]_vars

ActiveBookings(f) ==
    { b \in DOMAIN bookings :
        bookings[b].facility_id = f /\ bookings[b].status \in {"pending", "approved"} }

\* C16: in every interleaving of delete-facility with create-booking and
\* approve requests, a facility row is removed only at a moment when no
\* booking of the facility is pending or approved, so no pending or approved
\* booking ever leaves the table.
C16_DeleteNeverLosesActiveBooking ==
    [][/\ \A f \in DOMAIN facilities \ DOMAIN facilities' : ActiveBookings(f) = {}
       /\ \A b \in DOMAIN bookings \ DOMAIN bookings' :
             bookings[b].status \notin {"pending", "approved"}]_vars

\* C17: the numbers one admin dashboard request reports are those of a single
\* state of the bookings table, hence pending + approved + rejected <= total,
\* also while create, approve, reject and cancel requests are served during
\* the request.
C17_AdminStatsFromOneState ==
    (last.op = "admin_dashboard" /\ last.outcome = "ok") =>
        last.stats.pending + last.stats.approved + last.stats.rejected <= last.stats.total

\* C18: every connection an entity-layer operation takes from the pool is given
\* back when the operation ends, whether its statement succeeds or fails: no
\* connection is held when no operation is in progress, and never more than
\* pool_size are.
C18_ConnectionsReleased ==
    /\ held <= pool_size
    /\ queries = << >> => held = 0

\* C19: a facility update that supplies no new image leaves the stored image
\* reference as it was immediately before the update was written, also when
\* an update that uploads a new image for the facility is served between the
\* request's read of the facility and its write.
C19_ImagePreservedWithoutUpload ==
    [][(/\ last'.op \in {"update_facility", "update_facility_commit"}
        /\ last'.outcome = "ok"
        /\ last'.upload = ""
        /\ last'.target \in DOMAIN facilities) =>
          facilities'[last'.target].image = facilities[last'.target].image]_vars

PendingCount == Cardinality({ b \in DOMAIN bookings : bookings[b].status = "pending" })

\* C20: over every step a booking that is approved, rejected or cancelled is
\* not pending afterwards, whoever issues approve, reject and cancel requests
\* and in whatever order; and the number of pending bookings grows only in a
\* step in which create-booking inserted a row.
C20_NeverPendingAgain ==
    [][/\ \A b \in DOMAIN bookings \cap DOMAIN bookings' :
             bookings[b].status # "pending" => bookings'[b].status # "pending"
       /\ PendingCount' > PendingCount =>
             /\ last'.op = "create_booking"
             /\ last'.outcome = "ok"
             /\ DOMAIN bookings' # DOMAIN bookings]_vars

\* An approved booking was just rejected by an admin while its owner has
\* another booking that left pending through a cancel.
C20_Witness ==
    /\ last.op = "reject_booking"
    /\ last.was = "approved"
    /\ last.target \in DOMAIN bookings
    /\ bookings[last.target].status = "rejected"
    /\ \E b \in DOMAIN bookings : bookings[b].status = "cancelled"

\* C21: when an admin's approve (or reject) and the owner's cancel of one
\* pending booking are in flight together, then in whichever order they are
\* served, once both are completed the booking has the status the admin
\* decided, 'approved' (or 'rejected'), and is not 'cancelled'.
C21_AdminDecisionWins ==
    \A i \in 1 .. Len(racing) :
        Waiting(racing[i]) = {} =>
            /\ racing[i].target \in DOMAIN bookings
            /\ bookings[racing[i].target].status = DecidedStatus(racing[i].decision)
            /\ bookings[racing[i].target].status # "cancelled"

\* The owner's cancel was served first and took effect, then the admin's
\* approve overwrote it.
C21_Witness ==
    /\ last.op = "approve_booking"
    /\ last.was = "cancelled"
    /\ \E i \in 1 .. Len(racing) :
          /\ racing[i].target = last.target
          /\ racing[i].served = <<"cancel_booking", "approve_booking">>
          /\ bookings[last.target].status = "approved"

\* The other order: the admin's reject was served first, the owner's cancel
\* after it found the booking no longer pending.
C21_CancelServedLast ==
    /\ last.op = "cancel_booking"
    /\ last.was = "rejected"
    /\ \E i \in 1 .. Len(racing) :
          /\ racing[i].target = last.target
          /\ racing[i].served = <<"reject_booking", "cancel_booking">>
          /\ bookings[last.target].status = "rejected"

\* The reasons given: a cancel served after the admin's write changes no row,
\* and the admin's write served after the cancel sets the booking's status.
C21_NoOpAndOverwrite ==
    [][\A i \in 1 .. Len(racing) :
          (Len(racing[i].served) = 1 /\ Len(racing'[i].served) = 2) =>
              IF racing'[i].served[2] = "cancel_booking"
              THEN bookings' = bookings
              ELSE /\ bookings[racing[i].target].status = "cancelled"
                   /\ bookings' = WithStatus(racing[i].target,
                                             DecidedStatus(racing[i].decision))]_vars

====
